---- MODULE Spec2Model ----
(***************************************************************************)
(* Model of the shared store of mini-redis (rust/mini-redis/lib/src/db.rs): *)
(* the key/value map with its expiration index, the pub/sub registry, the   *)
(* mutex that guards them, the Notify primitive and the background purge    *)
(* task.  Critical sections are atomic actions (they run under the single   *)
(* std::sync::Mutex); what a function does after it released the lock is a  *)
(* separate step.  A panic inside a critical section poisons the mutex, and *)
(* every later `lock().unwrap()` panics in turn.                            *)
(***************************************************************************)
EXTENDS Integers, Sequences, FiniteSets, TLC

\* ---------------------------------------------------------------- bounds
NumSessions == 2
MaxId == 3
MaxTime == 1
MaxTtl == 1
MaxRx == 2
MaxPublish == 2

\* `broadcast::channel(1024)`
Capacity == 1024

Sessions == 1..NumSessions
Keys == {"a", "b"}
Values == {"v", "w"}
Channels == {"c", "d"}
Msgs == {"m", "n"}
RxIds == 1..MaxRx

\* Option<T>: None is the empty set, Some(x) the singleton.
None == {}
Some(x) == {x}
\* Option<Duration> arguments of Db::set
Expires == {None} \cup {Some(d) : d \in 0..MaxTtl}

VARIABLES
    entries,      \* State::entries      HashMap<String, Entry>
    expirations,  \* State::expirations  BTreeMap<(Instant, u64), String>
    pub_sub,      \* State::pub_sub      channels that have a broadcast::Sender
    next_id,      \* State::next_id
    shutdown,     \* State::shutdown
    poisoned,     \* Shared::state mutex poisoned by a panic under the lock
    permit,       \* Shared::background_task: a stored notify_one permit
    receivers,    \* live broadcast::Receiver handles: slot -> [chan, queue]
                  \* and, as history, [at, got]: Len(published[chan]) at the
                  \* subscribe and the messages received since
    purgePc,      \* position of purge_expired_tasks
    purgeTarget,  \* Option<Instant> returned by the last purge_expired_keys
    sessPc,       \* position of each session task
    guardPc,      \* position of DbDropGuard::drop
    now,          \* Instant::now()
    lastOp,       \* history: the last Db call of a session and its outcome (of a
                  \* set that panics at the lock, only that); asleep: the target
                  \* the purge task was sleeping until when a set ran
    issued,       \* history: ids taken by Db::set calls, in order
    lastSet,      \* history: value of the last completed set per key, cleared on purge
    asked,        \* history: [id, key, when] of the Db::set calls that took the
                  \* lock and carried a TTL
    purged,       \* history: ids of the entries the purge task removed
    published,    \* history: per channel, the messages of the completed publishes
    conn,         \* the connection handler's last frame, what Command::from_frame
                  \* made of it and what Command::apply did with it; as history,
                  \* sess: the connection, touched: a Db call was made, prev: the
                  \* frame before it on that connection was an unknown command;
                  \* called: what Command::get_name returned for cmd, again: the
                  \* variant Command::from_frame gives the frame under that name
    mtx           \* Shared::state mutex, step by step: who holds it, and where each
                  \* task (sessions, purge task, guard drop) stands in its Db call

stateVars == <<entries, expirations, pub_sub, next_id, shutdown>>
histVars == <<lastOp, issued, lastSet, asked, purged, published>>
vars == <<entries, expirations, pub_sub, next_id, shutdown, poisoned, permit,
          receivers, purgePc, purgeTarget, sessPc, guardPc, now,
          lastOp, issued, lastSet, asked, purged, published, conn, mtx>>
\* what the layers above and below the Db calls keep
layerVars == <<conn, mtx>>

\* ------------------------------------------------------- maps as functions
Insert(m, k, v) == [x \in (DOMAIN m) \cup {k} |-> IF x = k THEN v ELSE m[x]]
Remove(m, k) == [x \in (DOMAIN m) \ {k} |-> m[x]]
EmptyMap == [x \in {} |-> x]

\* Ord of (Instant, u64): by instant, then by id.
PairLess(p, q) == p[1] < q[1] \/ (p[1] = q[1] /\ p[2] < q[2])
\* BTreeMap iteration order: the first key.
FirstKey(m) == CHOOSE p \in DOMAIN m : \A q \in DOMAIN m : q = p \/ PairLess(p, q)

\* State::next_expiration
NextExpiration(exps) == IF DOMAIN exps = {} THEN None ELSE Some(FirstKey(exps)[1])

\* `self.shared.state.lock().unwrap()`: panics when the mutex is poisoned.
LockPanics(p) == p

\* `shutdown` is set "cuando todos los values de 'Db' han sido Drop": the
\* sessions use their Db handles only while the guard has not been dropped.
HandlesLive(g) == g = "held"

\* no session is inside a Db call
SessionsQuiet(pcs) == \A p \in DOMAIN pcs : pcs[p] = "idle"

\* faulty variant: a notification that is lost when nobody waits yet
NotifyOneLost(pm) == pm

\* Notify::notify_one: wakes the waiter or stores one permit.
NotifyOne(pm) == TRUE

\* ------------------------------------------------------------ Db::set
\* `let when = Instant::now() + expire.unwrap()` as an Option
SetWhen(t, expire) == {t + d : d \in expire}

\* `state.next_expiration().map(|expiration| expiration > when).unwrap()`
\* aborts when the expiration index is empty.
SetUnwrapPanics(exps, expire) == expire # None /\ NextExpiration(exps) = None

\* faulty variant: a set that never notifies
SetNotifyNever(exps, expire, t) == FALSE

\* the `notify` computed by Db::set (defined when the unwrap does not abort)
SetNotify(exps, expire, t) ==
    /\ expire # None
    /\ \E e \in NextExpiration(exps) : \E w \in SetWhen(t, expire) : e > w

\* the new Entry
NewEntry(id, value, expire, t) ==
    [id |-> id, data |-> value, expires_at |-> SetWhen(t, expire)]

\* `state.entries.insert(key, Entry {..})`
EntriesAfterSet(ents, key, id, value, expire, t) ==
    Insert(ents, key, NewEntry(id, value, expire, t))

\* faulty variant: the insert into entries moved ahead of the unwrap
EntriesInsertedBeforeUnwrap(ents, key, id, value, expire, t) ==
    EntriesAfterSet(ents, key, id, value, expire, t)

\* entries left behind by a set that aborts in the unwrap: the insert
\* into entries comes after it, so nothing was stored.
EntriesAtUnwrapPanic(ents, key, id, value, expire, t) == ents

\* faulty variant: the pair of the previous entry of the key stays in the index
ExpirationsKeepPrev(exps, ents, key, id, expire, t) ==
    IF expire = None THEN exps
    ELSE Insert(exps, <<CHOOSE w \in SetWhen(t, expire) : TRUE, id>>, key)

\* expirations: insert of the new pair, then removal of the pair of the
\* previous entry of the key, if it had an expiration.
ExpirationsAfterSet(exps, ents, key, id, expire, t) ==
    LET withNew == IF expire = None THEN exps
                   ELSE Insert(exps, <<CHOOSE w \in SetWhen(t, expire) : TRUE, id>>, key)
        prevPairs == IF key \in DOMAIN ents
                     THEN {<<w, ents[key].id>> : w \in ents[key].expires_at}
                     ELSE {}
    IN  [p \in (DOMAIN withNew) \ prevPairs |-> withNew[p]]

\* faulty variant: the increment of next_id left out
NextIdStuck(n) == n

\* `state.next_id += 1`
NextIdAfterSet(n) == n + 1

NoOp == [op |-> "none", key |-> "", ttl |-> None, at |-> 0,
         outcome |-> "ok", ret |-> None, count |-> None, notify |-> FALSE,
         pre |-> None, stored |-> FALSE, changed |-> FALSE, asleep |-> None]

\* history: the entry of a set and, with a TTL, its index pair are in the state
Stored(ents, exps, key, value, id, when) ==
    /\ key \in DOMAIN ents
    /\ ents[key] = [id |-> id, data |-> value, expires_at |-> when]
    /\ \A w \in when : <<w, id>> \in DOMAIN exps /\ exps[<<w, id>>] = key

\* a session task panics in a Db call: the task ends, and its slot stands
\* for the next connection the server accepts.  The receivers it held are
\* dropped by DropReceiver.
SessionPanics(p) == sessPc' = [sessPc EXCEPT ![p] = "idle"]

\* the part of the state Db::set works on
DbState(ents, exps, nid, pz) ==
    [entries |-> ents, expirations |-> exps, next_id |-> nid, poisoned |-> pz]

\* Db::set as a function of that state: the lock, the id, the unwrap, the two
\* inserts and the removal of the previous pair
SetState(st, key, value, expire, t) ==
    IF LockPanics(st.poisoned) THEN st
    ELSE IF SetUnwrapPanics(st.expirations, expire)
    THEN DbState(EntriesAtUnwrapPanic(st.entries, key, st.next_id, value, expire, t),
                 st.expirations, NextIdAfterSet(st.next_id), TRUE)
    ELSE DbState(EntriesAfterSet(st.entries, key, st.next_id, value, expire, t),
                 ExpirationsAfterSet(st.expirations, st.entries, key, st.next_id, expire, t),
                 NextIdAfterSet(st.next_id), st.poisoned)

Set(p, key, value, expire) ==
    /\ sessPc[p] = "idle"
    /\ HandlesLive(guardPc)
    /\ next_id < MaxId
    /\ LET after == SetState(DbState(entries, expirations, next_id, poisoned),
                             key, value, expire, now)
       IN  /\ entries' = after.entries
           /\ expirations' = after.expirations
           /\ next_id' = after.next_id
           /\ poisoned' = after.poisoned
    /\ IF LockPanics(poisoned)
       THEN /\ SessionPanics(p)
            /\ UNCHANGED <<issued, lastSet, asked>>
       ELSE /\ issued' = Append(issued, next_id)
            /\ asked' = asked \cup {[id |-> next_id, key |-> key, when |-> w] :
                                       w \in SetWhen(now, expire)}
            /\ IF SetUnwrapPanics(expirations, expire)
               THEN /\ SessionPanics(p)
                    /\ UNCHANGED lastSet
               ELSE /\ lastSet' = [lastSet EXCEPT ![key] = Some(value)]
                    /\ sessPc' = [sessPc EXCEPT ![p] =
                                     IF SetNotify(expirations, expire, now)
                                     THEN "set_notify" ELSE "set_return"]
    /\ lastOp' = IF LockPanics(poisoned)
                 THEN [NoOp EXCEPT !.op = "set", !.outcome = "panic"]
                 ELSE [NoOp EXCEPT
                         !.op = "set", !.key = key, !.ttl = expire, !.at = now,
                         !.pre = NextExpiration(expirations),
                         !.outcome = IF SetUnwrapPanics(expirations, expire)
                                     THEN "panic" ELSE "ok",
                         !.notify = /\ ~SetUnwrapPanics(expirations, expire)
                                    /\ SetNotify(expirations, expire, now),
                         !.stored = Stored(entries', expirations', key, value, next_id,
                                           SetWhen(now, expire)),
                         !.changed = (entries' # entries \/ expirations' # expirations),
                         !.asleep = IF purgePc = "wait" THEN purgeTarget ELSE None]
    /\ UNCHANGED <<pub_sub, shutdown, permit, receivers, purgePc, purgeTarget, guardPc,
                   now, purged, published>>

\* after `drop(state)`: `if notify { notify_one() }`, then return
SetFinish(p) ==
    /\ sessPc[p] \in {"set_notify", "set_return"}
    /\ permit' = IF sessPc[p] = "set_notify" THEN NotifyOne(permit) ELSE permit
    /\ sessPc' = [sessPc EXCEPT ![p] = "idle"]
    /\ UNCHANGED <<stateVars, poisoned, receivers, purgePc, purgeTarget,
                   guardPc, now, histVars>>

\* ------------------------------------------------------------ Db::get
GetResult(ents, key) == IF key \in DOMAIN ents THEN Some(ents[key].data) ELSE None

Get(p, key) ==
    /\ sessPc[p] = "idle"
    /\ HandlesLive(guardPc)
    /\ lastOp' = [NoOp EXCEPT !.op = "get", !.key = key, !.at = now,
                     !.outcome = IF LockPanics(poisoned) THEN "panic" ELSE "ok",
                     !.ret = IF LockPanics(poisoned) THEN None ELSE GetResult(entries, key)]
    /\ IF LockPanics(poisoned)
       THEN SessionPanics(p)
       ELSE UNCHANGED sessPc
    /\ UNCHANGED <<stateVars, poisoned, permit, receivers, purgePc, purgeTarget, guardPc, now,
                   issued, lastSet, asked, purged, published>>

\* ------------------------------------------- Shared::purge_expired_keys
\* the `while let Some((&(when, id), key)) = state.expirations.iter().next()` loop
RECURSIVE PurgeLoop(_, _, _, _)
PurgeLoop(ents, exps, t, gone) ==
    IF DOMAIN exps = {}
    THEN [entries |-> ents, expirations |-> exps, ret |-> None, gone |-> gone]
    ELSE LET f == FirstKey(exps) IN
         IF f[1] > t
         THEN [entries |-> ents, expirations |-> exps, ret |-> Some(f[1]), gone |-> gone]
         ELSE PurgeLoop(Remove(ents, exps[f]), Remove(exps, f), t, gone \cup {f[2]})

\* faulty variant: the pairs leave the index, the entries stay
PurgeKeepsEntries(ents, exps, down, t) ==
    IF down
    THEN [entries |-> ents, expirations |-> exps, ret |-> None, gone |-> {}]
    ELSE [PurgeLoop(ents, exps, t, {}) EXCEPT !.entries = ents]

\* purge_expired_keys under the lock; `gone` are the ids of the removed pairs
PurgeExpiredKeys(ents, exps, down, t) ==
    IF down
    THEN [entries |-> ents, expirations |-> exps, ret |-> None, gone |-> {}]
    ELSE PurgeLoop(ents, exps, t, {})

\* Shared::is_shutdown
IsShutdown(down) == down

\* ------------------------------------------------- purge_expired_tasks
\* `while !shared.is_shutdown()`
PurgeCheck ==
    /\ purgePc = "check"
    /\ purgePc' = IF LockPanics(poisoned) THEN "panicked"
                  ELSE IF IsShutdown(shutdown) THEN "done" ELSE "purge"
    /\ UNCHANGED layerVars
    /\ UNCHANGED <<stateVars, poisoned, permit, receivers, purgeTarget, sessPc,
                   guardPc, now, histVars>>

\* `shared.purge_expired_keys()`
PurgeRun ==
    /\ purgePc = "purge"
    /\ IF LockPanics(poisoned)
       THEN /\ purgePc' = "panicked"
            /\ UNCHANGED <<entries, expirations, purgeTarget, lastSet, purged>>
       ELSE LET r == PurgeExpiredKeys(entries, expirations, shutdown, now) IN
            /\ entries' = r.entries
            /\ expirations' = r.expirations
            /\ purgeTarget' = r.ret
            /\ purgePc' = "wait"
            /\ purged' = purged \cup r.gone
            /\ lastSet' = [k \in Keys |-> IF k \in DOMAIN entries /\ k \notin DOMAIN r.entries
                                           THEN None ELSE lastSet[k]]
    /\ UNCHANGED layerVars
    /\ UNCHANGED <<pub_sub, next_id, shutdown, poisoned, permit, receivers, sessPc,
                   guardPc, now, lastOp, issued, asked, published>>

\* the select! over sleep_until(when) and notified(), or notified().await
\* alone when there is no target: the task resumes by the timer or by
\* taking the stored permit.
TimerReady(target, t) == \E w \in target : t >= w

PurgeWake ==
    /\ purgePc = "wait"
    /\ \E byTimer \in BOOLEAN :
          /\ IF byTimer THEN TimerReady(purgeTarget, now) ELSE permit
          /\ permit' = IF byTimer THEN permit ELSE FALSE
    /\ purgePc' = "check"
    /\ UNCHANGED layerVars
    /\ UNCHANGED <<stateVars, poisoned, receivers, purgeTarget, sessPc,
                   guardPc, now, histVars>>

\* ------------------------------ DbDropGuard::drop, Db::shutdown_purge_task
ShutdownLock ==
    /\ guardPc = "held"
    /\ SessionsQuiet(sessPc)
    /\ IF LockPanics(poisoned)
       THEN /\ guardPc' = "panicked"
            /\ UNCHANGED shutdown
       ELSE /\ shutdown' = TRUE
            /\ guardPc' = "notify"
    /\ UNCHANGED layerVars
    /\ UNCHANGED <<entries, expirations, pub_sub, next_id, poisoned, permit, receivers,
                   purgePc, purgeTarget, sessPc, now, histVars>>

\* after `drop(state)`: `self.shared.background_task.notify_one()`
ShutdownNotify ==
    /\ guardPc = "notify"
    /\ permit' = NotifyOne(permit)
    /\ guardPc' = "dropped"
    /\ UNCHANGED layerVars
    /\ UNCHANGED <<stateVars, poisoned, receivers, purgePc, purgeTarget, sessPc,
                   now, histVars>>

\* ------------------------------------------------------------- time
Tick ==
    /\ now < MaxTime
    /\ now' = now + 1
    /\ UNCHANGED layerVars
    /\ UNCHANGED <<stateVars, poisoned, permit, receivers, purgePc, purgeTarget,
                   sessPc, guardPc, histVars>>

\* ------------------------------------------------------ Db::subscribe
\* live receivers of a channel
ReceiversOf(rxs, c) == {r \in DOMAIN rxs : rxs[r].chan = c}

\* the slots of RxIds that hold no live receiver, and the one a new receiver takes
FreeSlots(rxs) == RxIds \ DOMAIN rxs
NewSlot(rxs) == CHOOSE r \in FreeSlots(rxs) : \A x \in FreeSlots(rxs) : r <= x

\* faulty variant: a new receiver that replays what was sent before
SubscribeQueueReplay(backlog) == backlog

\* a receiver obtained from `tx.subscribe()` or `broadcast::channel(1024)`
\* starts with nothing to read, whatever was sent before
SubscribeQueue(backlog) == <<>>

Subscribe(p, c) ==
    /\ sessPc[p] = "idle"
    /\ HandlesLive(guardPc)
    /\ FreeSlots(receivers) # {}
    /\ lastOp' = [NoOp EXCEPT !.op = "subscribe",
                     !.outcome = IF LockPanics(poisoned) THEN "panic" ELSE "ok"]
    /\ IF LockPanics(poisoned)
       THEN /\ SessionPanics(p)
            /\ UNCHANGED <<pub_sub, receivers>>
       ELSE /\ pub_sub' = pub_sub \cup {c}
            /\ receivers' = Insert(receivers, NewSlot(receivers),
                                   [chan |-> c, queue |-> SubscribeQueue(published[c]),
                                    at |-> Len(published[c]), got |-> <<>>])
            /\ UNCHANGED sessPc
    /\ UNCHANGED <<entries, expirations, next_id, shutdown, poisoned, permit, purgePc,
                   purgeTarget, guardPc, now, issued, lastSet, asked, purged, published>>

\* -------------------------------------------------------- Db::publish
\* broadcast::Sender::send: Err when there is no receiver, else Ok(receivers)
SendResult(rxs, c) ==
    IF ReceiversOf(rxs, c) = {} THEN None ELSE Some(Cardinality(ReceiversOf(rxs, c)))

\* `.map(|tx| tx.send(value).unwrap_or(0)).unwrap_or(0)`
PublishResult(ps, rxs, c) ==
    IF c \notin ps THEN 0
    ELSE IF SendResult(rxs, c) = None THEN 0
    ELSE CHOOSE n \in SendResult(rxs, c) : TRUE

\* the value is queued for every receiver of the channel; a receiver that is
\* Capacity messages behind loses the oldest one
Enqueue(q, m) == IF Len(q) >= Capacity THEN Append(Tail(q), m) ELSE Append(q, m)

ReceiversAfterSend(rxs, c, m) ==
    [r \in DOMAIN rxs |-> IF rxs[r].chan = c
                          THEN [rxs[r] EXCEPT !.queue = Enqueue(@, m)]
                          ELSE rxs[r]]

PublishedTotal == Len(published["c"]) + Len(published["d"])

Publish(p, c, m) ==
    /\ sessPc[p] = "idle"
    /\ HandlesLive(guardPc)
    /\ PublishedTotal < MaxPublish
    /\ lastOp' = [NoOp EXCEPT !.op = "publish",
                     !.outcome = IF LockPanics(poisoned) THEN "panic" ELSE "ok",
                     !.pre = Some(Cardinality(ReceiversOf(receivers, c))),
                     !.count = IF LockPanics(poisoned) THEN None
                               ELSE Some(PublishResult(pub_sub, receivers, c))]
    /\ IF LockPanics(poisoned)
       THEN /\ SessionPanics(p)
            /\ UNCHANGED <<published, receivers>>
       ELSE /\ receivers' = IF c \in pub_sub THEN ReceiversAfterSend(receivers, c, m)
                            ELSE receivers
            /\ published' = [published EXCEPT ![c] = Append(@, m)]
            /\ UNCHANGED sessPc
    /\ UNCHANGED <<stateVars, poisoned, permit, purgePc, purgeTarget, guardPc, now,
                   issued, lastSet, asked, purged>>

\* a subscribed session takes the next message of one of its receivers
Recv(r) ==
    /\ r \in DOMAIN receivers
    /\ receivers[r].queue # <<>>
    /\ receivers' = [receivers EXCEPT ![r].queue = Tail(@),
                                      ![r].got = Append(@, Head(receivers[r].queue))]
    /\ UNCHANGED layerVars
    /\ UNCHANGED <<stateVars, poisoned, permit, purgePc, purgeTarget, sessPc,
                   guardPc, now, lastOp, issued, lastSet, asked, purged, published>>

\* a session unsubscribes or disconnects: the receiver is dropped
DropReceiver(r) ==
    /\ r \in DOMAIN receivers
    /\ receivers' = Remove(receivers, r)
    /\ UNCHANGED layerVars
    /\ UNCHANGED <<stateVars, poisoned, permit, purgePc, purgeTarget, sessPc,
                   guardPc, now, histVars>>

\* ------------------------------------------------- cmd.rs: strings, frames
\* A string is the sequence of its characters; a character is a letter, given
\* by its lowercase form, and its case.
Ch(c, up) == [c |-> c, up |-> up]
\* the lowercase and the uppercase spelling of a word, and a mixed one
Lit(w) == [i \in DOMAIN w |-> Ch(w[i], FALSE)]
Upper(w) == [i \in DOMAIN w |-> Ch(w[i], TRUE)]
Spell(w, caps) == [i \in DOMAIN w |-> Ch(w[i], caps[i])]

\* faulty variant: the name matched as it was spelled
ToLowercaseKept(s) == s

\* `.to_lowercase()`
ToLowercase(s) == [i \in DOMAIN s |-> Ch(s[i].c, FALSE)]

\* the names `match &command_name[..]` knows, as words
GetWord == <<"g", "e", "t">>
PublishWord == <<"p", "u", "b", "l", "i", "s", "h">>
SetWord == <<"s", "e", "t">>
SubscribeWord == <<"s", "u", "b", "s", "c", "r", "i", "b", "e">>
UnsubscribeWord == <<"u", "n", "s", "u", "b", "s", "c", "r", "i", "b", "e">>
PingWord == <<"p", "i", "n", "g">>
FooWord == <<"f", "o", "o">>
CommandWords == {GetWord, PublishWord, SetWord, SubscribeWord, UnsubscribeWord, PingWord}

\* the arm of the match a name selects
VariantOf(name) ==
    IF name = Lit(GetWord) THEN "get"
    ELSE IF name = Lit(PublishWord) THEN "publish"
    ELSE IF name = Lit(SetWord) THEN "set"
    ELSE IF name = Lit(SubscribeWord) THEN "subscribe"
    ELSE IF name = Lit(UnsubscribeWord) THEN "unsubscribe"
    ELSE IF name = Lit(PingWord) THEN "ping"
    ELSE "unknown"

\* frames: the children of a request array are Bulk strings or Integers
Bulk(s) == [kind |-> "bulk", s |-> s, n |-> 0]
Integer(n) == [kind |-> "int", s |-> <<>>, n |-> n]
Array(items) == [kind |-> "array", items |-> items]
SimpleFrame == [kind |-> "simple", items |-> <<>>]
NoFrame == [kind |-> "none", items |-> <<>>]

\* a Command; the fields a variant does not have stay empty
NoCmd == [variant |-> "none", name |-> <<>>, key |-> <<>>, value |-> <<>>,
          expire |-> None, channels |-> <<>>, msg |-> None]

\* the outcome of a parser: Err, or Ok(cmd) with the frames it left
ParseErr == [ok |-> FALSE, cmd |-> NoCmd, rest |-> <<>>]
ParseOk(cmd, rest) == [ok |-> TRUE, cmd |-> cmd, rest |-> rest]

\* Parse::next_string, next_bytes: a Bulk is taken; EndOfStream or another
\* kind of frame is an error
HasString(rest) == rest # <<>> /\ Head(rest).kind = "bulk"
\* Parse::next_int
HasInt(rest) == rest # <<>> /\ Head(rest).kind = "int"

\* Get::parse_frames: key
GetParseFrames(rest) ==
    IF HasString(rest)
    THEN ParseOk([NoCmd EXCEPT !.variant = "get", !.key = Head(rest).s], Tail(rest))
    ELSE ParseErr

\* Publish::parse_frames: channel, message
PublishParseFrames(rest) ==
    IF HasString(rest) /\ HasString(Tail(rest))
    THEN ParseOk([NoCmd EXCEPT !.variant = "publish", !.channels = <<rest[1].s>>,
                               !.msg = Some(rest[2].s)],
                 Tail(Tail(rest)))
    ELSE ParseErr

\* Set::parse_frames: key, value, then nothing or `EX seconds`
SetParseFrames(rest) ==
    IF ~(HasString(rest) /\ HasString(Tail(rest))) THEN ParseErr
    ELSE LET cmd == [NoCmd EXCEPT !.variant = "set", !.key = rest[1].s, !.value = rest[2].s]
             opt == Tail(Tail(rest))
         IN  IF opt = <<>> THEN ParseOk(cmd, <<>>)
             ELSE IF HasString(opt) /\ opt[1].s = Upper(<<"e", "x">>) /\ HasInt(Tail(opt))
             THEN ParseOk([cmd EXCEPT !.expire = Some(opt[2].n)], Tail(Tail(opt)))
             ELSE ParseErr

\* the strings of a run of Bulk frames
Strings(rest) == [i \in DOMAIN rest |-> rest[i].s]
AllStrings(rest) == \A i \in DOMAIN rest : rest[i].kind = "bulk"

\* Subscribe::parse_frames: one or more channels, to the end of the array
SubscribeParseFrames(rest) ==
    IF rest # <<>> /\ AllStrings(rest)
    THEN ParseOk([NoCmd EXCEPT !.variant = "subscribe", !.channels = Strings(rest)], <<>>)
    ELSE ParseErr

\* Unsubscribe::parse_frames: zero or more channels, to the end of the array
UnsubscribeParseFrames(rest) ==
    IF AllStrings(rest)
    THEN ParseOk([NoCmd EXCEPT !.variant = "unsubscribe", !.channels = Strings(rest)], <<>>)
    ELSE ParseErr

\* Ping::parse_frames: an optional message
PingParseFrames(rest) ==
    IF rest = <<>> THEN ParseOk([NoCmd EXCEPT !.variant = "ping"], <<>>)
    ELSE IF HasString(rest)
    THEN ParseOk([NoCmd EXCEPT !.variant = "ping", !.msg = Some(rest[1].s)], Tail(rest))
    ELSE ParseErr

\* ------------------------------------------------- Command::from_frame
\* faulty variant: the check for unconsumed frames left out
FinishSkipped(r) == r

\* `parse.finish()?`: an error when frames are left
Finish(r) == IF r.ok /\ r.rest # <<>> THEN ParseErr ELSE r

\* faulty variant: the unknown arm falling through to `parse.finish()?`
UnknownArmFinishes(name, rest) ==
    Finish(ParseOk([NoCmd EXCEPT !.variant = "unknown", !.name = name], rest))

\* `_ => return Ok(Command::Unknown(Unknown::new(command_name)))`, which
\* returns before parse.finish() is reached
UnknownArm(name, rest) ==
    ParseOk([NoCmd EXCEPT !.variant = "unknown", !.name = name], rest)

\* the arms of `match &command_name[..]` that delegate to a parser
MatchArm(name, rest) ==
    CASE VariantOf(name) = "get" -> GetParseFrames(rest)
      [] VariantOf(name) = "publish" -> PublishParseFrames(rest)
      [] VariantOf(name) = "set" -> SetParseFrames(rest)
      [] VariantOf(name) = "subscribe" -> SubscribeParseFrames(rest)
      [] VariantOf(name) = "unsubscribe" -> UnsubscribeParseFrames(rest)
      [] VariantOf(name) = "ping" -> PingParseFrames(rest)

\* Parse::new(frame)?, parse.next_string()?.to_lowercase(), the match, and
\* parse.finish()? for the arms that do not return
FromFrame(frame) ==
    IF frame.kind # "array" THEN ParseErr
    ELSE IF ~HasString(frame.items) THEN ParseErr
    ELSE LET name == ToLowercase(Head(frame.items).s)
             rest == Tail(frame.items)
         IN  IF VariantOf(name) = "unknown"
             THEN UnknownArm(name, rest)
             ELSE Finish(MatchArm(name, rest))

\* -------------------------------------------------- Command::get_name
PubWord == <<"p", "u", "b">>

\* the match of get_name; the Unknown arm hands back the name the command
\* was created with
GetName(cmd) ==
    CASE cmd.variant = "get" -> Lit(GetWord)
      [] cmd.variant = "publish" -> Lit(PubWord)
      [] cmd.variant = "set" -> Lit(SetWord)
      [] cmd.variant = "subscribe" -> Lit(SubscribeWord)
      [] cmd.variant = "unsubscribe" -> Lit(UnsubscribeWord)
      [] cmd.variant = "ping" -> Lit(PingWord)
      [] cmd.variant = "unknown" -> cmd.name

\* the frame with its command name replaced
Renamed(frame, name) == Array(<<Bulk(name)>> \o Tail(frame.items))

\* ----------------------------------------------------- Command::apply
\* the arms that hand the Db to the command: Get, Publish, Set, Subscribe
ApplyTakesDb(variant) == variant \in {"get", "publish", "set", "subscribe"}

\* faulty variant: Unsubscribe applied like a command without effect
ApplyErrsNever(variant) == FALSE

\* `Unsubscribe(_) => Err("`Unsubscribe` is unsupported in this context".into())`
ApplyErrs(variant) == variant = "unsubscribe"

\* a response frame
NoResp == [kind |-> "none", text |-> "", s |-> <<>>, n |-> 0]
ErrorResp(text, s) == [NoResp EXCEPT !.kind = "error", !.text = text, !.s = s]

\* Ping::apply: Simple "PONG", or the message echoed as a Bulk
PingResp(cmd) ==
    IF cmd.msg = None THEN [NoResp EXCEPT !.kind = "simple", !.text = "PONG"]
    ELSE [NoResp EXCEPT !.kind = "bulk", !.s = CHOOSE m \in cmd.msg : TRUE]

\* Unknown::apply: Error("ERR unknown command '<name>'")
UnknownResp(cmd) == ErrorResp("ERR unknown command", cmd.name)

\* the key, value, channel or message a one-letter lowercase string names
Text(s) == s[1].c

\* the response of a command that called the Db, from what the call returned
DbResp(op) ==
    IF op.outcome # "ok" THEN NoResp
    ELSE CASE op.op = "get" ->
                 IF op.ret = None THEN [NoResp EXCEPT !.kind = "null"]
                 ELSE [NoResp EXCEPT !.kind = "bulk", !.text = CHOOSE v \in op.ret : TRUE]
           [] op.op = "set" -> [NoResp EXCEPT !.kind = "simple", !.text = "OK"]
           [] op.op = "publish" ->
                 [NoResp EXCEPT !.kind = "int", !.n = CHOOSE n \in op.count : TRUE]
           [] op.op = "subscribe" -> [NoResp EXCEPT !.kind = "array", !.text = "subscribe"]

\* ------------------------------------------------ frames of the requests
A1 == Bulk(Lit(<<"a">>))
V1 == Bulk(Lit(<<"v">>))
C1 == Bulk(Lit(<<"c">>))
M1 == Bulk(Lit(<<"m">>))
Ex == Bulk(Upper(<<"e", "x">>))

\* every upper/lower-case spelling of a word
Spellings(w) == {Spell(w, caps) : caps \in [DOMAIN w -> BOOLEAN]}
Names == UNION {Spellings(w) : w \in CommandWords \cup {FooWord}}

\* argument lists: none, too few, exact, with EX, too many, of the wrong kind
ArgLists ==
    {<<>>, <<A1>>, <<A1, V1>>, <<A1, V1, V1>>, <<A1, V1, Ex>>, <<A1, V1, Ex, Integer(1)>>,
     <<A1, V1, Ex, Integer(1), A1>>, <<Integer(1)>>, <<A1, Integer(1)>>}

\* the frames Command::from_frame is given
Frames ==
    {Array(<<Bulk(nm)>> \o args) : nm \in Names, args \in ArgLists}
        \cup {SimpleFrame, Array(<<>>), Array(<<Integer(1)>>)}

\* the frames the connections send to a running server (PUBLISH is left to
\* PubSubSpec)
CmdFrames ==
    {Array(<<Bulk(Lit(GetWord)), A1>>),
     Array(<<Bulk(Upper(SetWord)), A1, V1>>),
     Array(<<Bulk(Lit(SetWord)), A1, V1, Ex, Integer(0)>>),
     Array(<<Bulk(Lit(SubscribeWord)), C1>>),
     Array(<<Bulk(Lit(UnsubscribeWord))>>),
     Array(<<Bulk(Lit(UnsubscribeWord)), C1>>),
     Array(<<Bulk(Upper(PingWord))>>),
     Array(<<Bulk(Lit(PingWord)), M1>>),
     Array(<<Bulk(Upper(FooWord))>>),
     Array(<<Bulk(Lit(FooWord)), A1, Integer(1)>>),
     Array(<<Bulk(Lit(GetWord)), A1, V1>>)}

\* what Command::from_frame makes of each of them
RequestCommand == [f \in CmdFrames |-> FromFrame(f)]

\* the connection handler between two frames
NoConn == [pc |-> "idle", frame |-> NoFrame, ok |-> FALSE, cmd |-> NoCmd,
           applied |-> "none", resp |-> NoResp, touched |-> FALSE,
           sess |-> 0, prev |-> FALSE, called |-> <<>>, again |-> "none"]

\* what the Db calls can change
dbVars == <<entries, expirations, pub_sub, next_id, shutdown, poisoned, receivers>>

\* everything but conn (a connection handler makes its Db calls in one step)
belowConn == <<entries, expirations, pub_sub, next_id, shutdown, poisoned, permit,
               receivers, purgePc, purgeTarget, sessPc, guardPc, now,
               lastOp, issued, lastSet, asked, purged, published, mtx>>

\* the handler of connection p reads frame f, parses it into a Command,
\* applies it and writes the response
HandleFrame(p, f) ==
    LET r == RequestCommand[f]
        v == r.cmd.variant
        applies == r.ok /\ ~ApplyErrs(v) /\ ApplyTakesDb(v)
    IN
    /\ sessPc[p] = "idle"
    /\ HandlesLive(guardPc)
    /\ IF ~applies THEN UNCHANGED belowConn
       ELSE /\ UNCHANGED mtx
            /\ CASE v = "get" -> Get(p, Text(r.cmd.key))
                   [] v = "set" -> Set(p, Text(r.cmd.key), Text(r.cmd.value), r.cmd.expire)
                   [] v = "publish" ->
                         Publish(p, Text(r.cmd.channels[1]), Text(CHOOSE m \in r.cmd.msg : TRUE))
                   [] v = "subscribe" ->
                         /\ Len(r.cmd.channels) = 1
                         /\ Subscribe(p, Text(r.cmd.channels[1]))
    /\ conn' = [pc |-> "applied", frame |-> f, ok |-> r.ok, cmd |-> r.cmd,
                applied |-> IF ~r.ok THEN "none"
                            ELSE IF ApplyErrs(v) THEN "err"
                            ELSE IF applies THEN lastOp'.outcome
                            ELSE "ok",
                resp |-> IF ~r.ok THEN ErrorResp("command error", <<>>)
                         ELSE IF ApplyErrs(v) THEN ErrorResp("unsupported", <<>>)
                         ELSE IF applies THEN DbResp(lastOp')
                         ELSE IF v = "ping" THEN PingResp(r.cmd)
                         ELSE IF v = "unknown" THEN UnknownResp(r.cmd)
                         ELSE NoResp,
                touched |-> (dbVars' # dbVars \/ lastOp' # lastOp),
                sess |-> p,
                prev |-> (conn.sess = p /\ conn.cmd.variant = "unknown"),
                called |-> <<>>,
                again |-> "none"]

\* Command::from_frame alone, on a frame that was read
ParseStep ==
    /\ conn.pc = "read"
    /\ conn' = [conn EXCEPT !.pc = "parsed",
                            !.ok = FromFrame(conn.frame).ok,
                            !.cmd = FromFrame(conn.frame).cmd]
    /\ UNCHANGED belowConn

\* Command::get_name on the command that was parsed
GetNameStep ==
    /\ conn.pc = "parsed"
    /\ conn.ok
    /\ conn' = [conn EXCEPT !.pc = "named", !.called = GetName(conn.cmd)]
    /\ UNCHANGED belowConn

\* Command::from_frame on the same request under the name get_name gave
ReparseStep ==
    /\ conn.pc = "named"
    /\ LET r == FromFrame(Renamed(conn.frame, conn.called))
       IN  conn' = [conn EXCEPT !.pc = "reparsed",
                                !.again = IF r.ok THEN r.cmd.variant ELSE "err"]
    /\ UNCHANGED belowConn

\* ------------------------------------------- the mutex, step by step
\* The Db calls again, with the lock, the critical section and the unlock as
\* separate steps and without the data: what a critical section finds in the
\* state (whether the unwrap of Db::set aborts, whether Db::set notifies) is
\* left open, and every outcome is taken.
PurgeTask == NumSessions + 1
GuardTask == NumSessions + 2
Tasks == Sessions \cup {PurgeTask, GuardTask}
DbOps == {"get", "set", "subscribe", "publish"}

\* where a task stands: at idle / want (blocked in lock()) / in (holding the
\* guard) / notify (before notify_one) / wait (select! or notified().await) /
\* held (the DbDropGuard alive) / done / dropped / panicked, in which function
At(stage, fn) == [at |-> stage, op |-> fn]

NoMtx ==
    [holder |-> None,
     task |-> [t \in Tasks |-> IF t = PurgeTask THEN At("want", "is_shutdown")
                               ELSE IF t = GuardTask THEN At("held", "drop")
                               ELSE At("idle", "none")]]

\* faulty variant: a guard that outlives its function
GuardLeaked(h) == h

\* the MutexGuard goes out of scope: at the end of the function, or when a
\* panic unwinds
GuardDropped(h) == None

\* faulty variant: the explicit drop left out
DropStateMissing(h) == h

\* `drop(state)`
DropState(h) == None

\* everything the mutex steps leave alone
aboveMtx == <<entries, expirations, pub_sub, next_id, receivers, purgePc, purgeTarget,
              sessPc, guardPc, now, lastOp, issued, lastSet, asked, purged, published, conn>>

\* a session calls get, set, subscribe or publish: `self.shared.state.lock()`
LkCall(p, op) ==
    /\ mtx.task[p].at = "idle"
    /\ mtx.task[GuardTask].at = "held"
    /\ mtx' = [mtx EXCEPT !.task[p] = At("want", op)]
    /\ UNCHANGED <<shutdown, poisoned, permit, aboveMtx>>

\* lock() returns to a task blocked in it: the mutex was free
LkAcquire(t) ==
    /\ mtx.task[t].at = "want"
    /\ mtx.holder = None
    /\ mtx' = [mtx EXCEPT !.holder = Some(t), !.task[t].at = "in"]
    /\ UNCHANGED <<shutdown, poisoned, permit, aboveMtx>>

\* the rest of get, set, subscribe or publish: `.unwrap()` of the lock result,
\* the critical section, and the unlock
LkSessionBody(p) ==
    /\ mtx.task[p].at = "in"
    /\ mtx.task[p].op \in DbOps
    /\ IF LockPanics(poisoned)
       THEN /\ mtx' = [mtx EXCEPT !.holder = GuardDropped(@), !.task[p] = At("idle", "none")]
            /\ UNCHANGED poisoned
       ELSE IF mtx.task[p].op = "set"
       THEN \E outcome \in {"panic", "notify", "return"} :
               /\ poisoned' = (outcome = "panic")
               /\ mtx' = IF outcome = "panic"
                         THEN [mtx EXCEPT !.holder = GuardDropped(@),
                                          !.task[p] = At("idle", "none")]
                         ELSE IF outcome = "notify"
                         THEN [mtx EXCEPT !.holder = DropState(@),
                                          !.task[p].at = "notify"]
                         ELSE [mtx EXCEPT !.holder = GuardDropped(DropState(@)),
                                          !.task[p] = At("idle", "none")]
       ELSE /\ mtx' = [mtx EXCEPT !.holder = GuardDropped(@), !.task[p] = At("idle", "none")]
            /\ UNCHANGED poisoned
    /\ UNCHANGED <<shutdown, permit, aboveMtx>>

\* `self.shared.background_task.notify_one()` of Db::set, and its return
LkSetNotify(p) ==
    /\ mtx.task[p] = At("notify", "set")
    /\ permit' = NotifyOne(permit)
    /\ mtx' = [mtx EXCEPT !.holder = IF @ = Some(p) THEN GuardDropped(@) ELSE @,
                          !.task[p] = At("idle", "none")]
    /\ UNCHANGED <<shutdown, poisoned, aboveMtx>>

\* Shared::is_shutdown under the lock, and `while !shared.is_shutdown()`
LkIsShutdown ==
    /\ mtx.task[PurgeTask] = At("in", "is_shutdown")
    /\ mtx' = [mtx EXCEPT !.holder = GuardDropped(@),
                          !.task[PurgeTask] =
                              IF LockPanics(poisoned) THEN At("panicked", "is_shutdown")
                              ELSE IF IsShutdown(shutdown) THEN At("done", "none")
                              ELSE At("want", "purge_expired_keys")]
    /\ UNCHANGED <<shutdown, poisoned, permit, aboveMtx>>

\* Shared::purge_expired_keys under the lock, then the task waits
LkPurgeKeys ==
    /\ mtx.task[PurgeTask] = At("in", "purge_expired_keys")
    /\ mtx' = [mtx EXCEPT !.holder = GuardDropped(@),
                          !.task[PurgeTask] =
                              IF LockPanics(poisoned)
                              THEN At("panicked", "purge_expired_keys")
                              ELSE At("wait", "select")]
    /\ UNCHANGED <<shutdown, poisoned, permit, aboveMtx>>

\* the task resumes from select! / notified().await
LkPurgeWake ==
    /\ mtx.task[PurgeTask].at = "wait"
    /\ \E byTimer \in BOOLEAN :
          /\ IF byTimer THEN TimerReady(purgeTarget, now) ELSE permit
          /\ permit' = IF byTimer THEN permit ELSE FALSE
    /\ mtx' = [mtx EXCEPT !.task[PurgeTask] = At("want", "is_shutdown")]
    /\ UNCHANGED <<shutdown, poisoned, aboveMtx>>

\* DbDropGuard::drop calls shutdown_purge_task: `self.shared.state.lock()`
LkGuardDrop ==
    /\ mtx.task[GuardTask].at = "held"
    /\ \A p \in Sessions : mtx.task[p].at = "idle"
    /\ mtx' = [mtx EXCEPT !.task[GuardTask] = At("want", "shutdown_purge_task")]
    /\ UNCHANGED <<shutdown, poisoned, permit, aboveMtx>>

\* shutdown_purge_task: `state.shutdown = true; drop(state)`
LkShutdownBody ==
    /\ mtx.task[GuardTask].at = "in"
    /\ IF LockPanics(poisoned)
       THEN /\ mtx' = [mtx EXCEPT !.holder = GuardDropped(@),
                                  !.task[GuardTask].at = "panicked"]
            /\ UNCHANGED shutdown
       ELSE /\ shutdown' = TRUE
            /\ mtx' = [mtx EXCEPT !.holder = DropState(@), !.task[GuardTask].at = "notify"]
    /\ UNCHANGED <<poisoned, permit, aboveMtx>>

\* shutdown_purge_task: `self.shared.background_task.notify_one()`
LkShutdownNotify ==
    /\ mtx.task[GuardTask].at = "notify"
    /\ permit' = NotifyOne(permit)
    /\ mtx' = [mtx EXCEPT !.holder = IF @ = Some(GuardTask) THEN GuardDropped(@) ELSE @,
                          !.task[GuardTask].at = "dropped"]
    /\ UNCHANGED <<shutdown, poisoned, aboveMtx>>

\* ------------------------------------------------------ specifications
\* Db::new: the purge task spawned, the guard alive, nothing notified
TasksInit ==
    /\ pub_sub = {}
    /\ shutdown = FALSE
    /\ poisoned = FALSE
    /\ permit = FALSE
    /\ receivers = EmptyMap
    /\ purgePc = "check"
    /\ purgeTarget = None
    /\ sessPc = [p \in Sessions |-> "idle"]
    /\ guardPc = "held"
    /\ now = 0
    /\ lastOp = NoOp
    /\ purged = {}
    /\ published = [c \in Channels |-> <<>>]

\* Db::new: empty state
DbInit ==
    /\ entries = EmptyMap
    /\ expirations = EmptyMap
    /\ next_id = 0
    /\ issued = <<>>
    /\ lastSet = [k \in Keys |-> None]
    /\ asked = {}
    /\ TasksInit

\* a server that has read no frame yet
Init == DbInit /\ conn = NoConn /\ mtx = NoMtx

\* A Db in use: entries with and without an expiration and the index that
\* goes with them (I1), with the instants up to the latest a set can give.
DrawnInstants == 0..(MaxTime + MaxTtl)
DrawnExpires == {None} \cup {Some(t) : t \in DrawnInstants}
\* the ids of the entries present; one id is left below MaxId for a set
KeyId(k) == IF k = "a" THEN MaxId - 3 ELSE MaxId - 2
DrawnEntries(d) == [k \in DOMAIN d |-> [id |-> KeyId(k), data |-> "v", expires_at |-> d[k]]]
DrawnIndex(ents) ==
    [pr \in UNION {{<<t, ents[k].id>> : t \in ents[k].expires_at} : k \in DOMAIN ents}
        |-> CHOOSE k \in DOMAIN ents : ents[k].id = pr[2]]

IndexedInit ==
    /\ \E ks \in SUBSET Keys : \E d \in [ks -> DrawnExpires] :
          /\ entries = DrawnEntries(d)
          /\ expirations = DrawnIndex(DrawnEntries(d))
          /\ lastSet = [k \in Keys |-> IF k \in ks THEN Some("v") ELSE None]
          /\ asked = UNION {{[id |-> KeyId(k), key |-> k, when |-> t] : t \in d[k]} : k \in ks}
    /\ next_id = MaxId - 1
    /\ issued = <<KeyId("a"), KeyId("b")>>
    /\ TasksInit
    /\ conn = NoConn
    /\ mtx = NoMtx

\* Command::from_frame about to be called on a frame
ParseInit ==
    /\ DbInit
    /\ conn \in {[NoConn EXCEPT !.pc = "read", !.frame = f] : f \in Frames}
    /\ mtx = NoMtx

DoSet == (\E p \in Sessions, k \in Keys, v \in Values, e \in Expires : Set(p, k, v, e)) /\ UNCHANGED layerVars
DoSetFinish == (\E p \in Sessions : SetFinish(p)) /\ UNCHANGED layerVars
DoGet == (\E p \in Sessions, k \in Keys : Get(p, k)) /\ UNCHANGED layerVars
DoSubscribe == (\E p \in Sessions, c \in Channels : Subscribe(p, c)) /\ UNCHANGED layerVars
DoPublish == (\E p \in Sessions, c \in Channels, m \in Msgs : Publish(p, c, m)) /\ UNCHANGED layerVars
DoRecv == \E r \in RxIds : Recv(r)
DoDropReceiver == \E r \in RxIds : DropReceiver(r)
\* the one key/value call the pub/sub side can observe: a set with a TTL
DoSetTtl == (\E p \in Sessions : Set(p, "a", "v", Some(0))) /\ UNCHANGED layerVars

\* key/value store, purge task and shutdown
Next ==
    \/ DoSet
    \/ DoSetFinish
    \/ DoGet
    \/ PurgeCheck
    \/ PurgeRun
    \/ PurgeWake
    \/ ShutdownLock
    \/ ShutdownNotify
    \/ Tick

Spec == Init /\ [][Next]_vars

\* the tokio runtime runs a task that can run, the guard's drop runs to its
\* end, and time passes
FairSpec ==
    /\ Spec
    /\ WF_vars(PurgeCheck)
    /\ WF_vars(PurgeRun)
    /\ WF_vars(PurgeWake)
    /\ WF_vars(ShutdownNotify)
    /\ WF_vars(DoSetFinish)
    /\ WF_vars(Tick)

\* pub/sub registry
PubSubNext ==
    \/ DoSubscribe
    \/ DoPublish
    \/ DoRecv
    \/ DoDropReceiver
    \/ DoSetTtl

PubSubSpec == Init /\ [][PubSubNext]_vars

\* sets and the purge task on a Db in use
IndexedNext ==
    \/ DoSet
    \/ DoSetFinish
    \/ PurgeCheck
    \/ PurgeRun
    \/ PurgeWake
    \/ Tick

IndexedSpec == IndexedInit /\ [][IndexedNext]_vars

\* the tokio runtime runs the purge task and a set past its unlock
FairIndexedSpec ==
    /\ IndexedSpec
    /\ WF_vars(PurgeCheck)
    /\ WF_vars(PurgeRun)
    /\ WF_vars(PurgeWake)
    /\ WF_vars(DoSetFinish)

\* the mutex, step by step
DoLkCall == \E p \in Sessions, op \in DbOps : LkCall(p, op)
DoLkAcquire == \E t \in Tasks : LkAcquire(t)
DoLkSessionBody == \E p \in Sessions : LkSessionBody(p)
DoLkSetNotify == \E p \in Sessions : LkSetNotify(p)

LockNext ==
    \/ DoLkCall
    \/ DoLkAcquire
    \/ DoLkSessionBody
    \/ DoLkSetNotify
    \/ LkIsShutdown
    \/ LkPurgeKeys
    \/ LkPurgeWake
    \/ LkGuardDrop
    \/ LkShutdownBody
    \/ LkShutdownNotify

LockSpec == Init /\ [][LockNext]_vars

\* a task that is running runs on; a task blocked in lock() gets the mutex
\* at one of the unlocks
FairLockSpec ==
    /\ LockSpec
    /\ \A t \in Tasks : SF_vars(LkAcquire(t))
    /\ \A p \in Sessions : WF_vars(LkSessionBody(p)) /\ WF_vars(LkSetNotify(p))
    /\ WF_vars(LkIsShutdown)
    /\ WF_vars(LkPurgeKeys)
    /\ WF_vars(LkPurgeWake)
    /\ WF_vars(LkShutdownBody)
    /\ WF_vars(LkShutdownNotify)

\* Command::from_frame on every frame of Frames
ParseSpec == ParseInit /\ [][ParseStep]_vars

\* Command::from_frame, Command::get_name and Command::from_frame again
NameNext ==
    \/ ParseStep
    \/ GetNameStep
    \/ ReparseStep

NameSpec == ParseInit /\ [][NameNext]_vars

\* connections sending requests to a server
DoHandleFrame == \E p \in Sessions, f \in CmdFrames : HandleFrame(p, f)

CmdNext ==
    \/ DoHandleFrame
    \/ DoSetFinish

CmdSpec == Init /\ [][CmdNext]_vars

\* ------------------------------------------------------------- claims
Range(f) == {f[x] : x \in DOMAIN f}

\* C1 (I1): in every state (the critical sections are atomic, so the mutex is
\* free in each), an entry with expires_at = t has the index pair
\* ((t, id), key), and every index pair belongs to the current entry of its
\* key: same instant, same id.  A key therefore has at most one pair.
C1_IndexMatchesEntries ==
    /\ \A k \in DOMAIN entries : \A t \in entries[k].expires_at :
          /\ <<t, entries[k].id>> \in DOMAIN expirations
          /\ expirations[<<t, entries[k].id>>] = k
    /\ \A pr \in DOMAIN expirations :
          /\ expirations[pr] \in DOMAIN entries
          /\ entries[expirations[pr]].expires_at = Some(pr[1])
          /\ entries[expirations[pr]].id = pr[2]

\* C1 witness: sets without TTL on a new and on an existing key, a set with a
\* TTL and a purge run have all happened.
C1_Witness ==
    /\ \E k \in DOMAIN entries : entries[k].id >= 1
    /\ asked # {}
    /\ purgePc = "wait"
    /\ Len(issued) >= 3

\* C2: a get returns the value of the most recent completed set of its key
\* (absent when there is none or the purge task removed it).
C2_SetVisibleToGet ==
    lastOp.op = "get" => (lastOp.outcome = "ok" /\ lastOp.ret = lastSet[lastOp.key])

\* the TTL request that is current for a key: the latest set of the key
\* carried a TTL
CurrentTtl(k) ==
    {a \in asked : /\ a.key = k
                   /\ \A b \in asked : b.key = k => b.id <= a.id
                   /\ (k \in DOMAIN entries => entries[k].id <= a.id)}

\* C3: a get executed at or after the expiration instant of the key's latest
\* set returns absent.
C3_ExpiredNotReturned ==
    (lastOp.op = "get" /\ \E a \in CurrentTtl(lastOp.key) : lastOp.at >= a.when)
        => (lastOp.outcome = "ok" /\ lastOp.ret = None)

\* the entry of a TTL set was replaced by a later set of the same key
Replaced(i) == \E a \in asked : a.id = i /\ a.key \in DOMAIN entries /\ entries[a.key].id > i

\* C4: the entry of every set with a TTL is eventually removed by the purge
\* task, unless it is replaced or the Db is shut down.
C4_TtlEntryEventuallyPurged ==
    \A i \in 0..(MaxId - 1) :
        ((\E a \in asked : a.id = i) /\ ~shutdown)
            ~> (i \in purged \/ Replaced(i) \/ shutdown)

\* C5: a set with a TTL completes, stores its entry and index pair, and its
\* notify is true exactly when the index was non-empty before the call and
\* the new instant is strictly earlier than the earliest one.
C5_NotifyAndStore ==
    (lastOp.op = "set" /\ lastOp.ttl # None)
        => /\ lastOp.outcome = "ok"
           /\ lastOp.stored
           /\ lastOp.notify = (\E e \in lastOp.pre : \E d \in lastOp.ttl : lastOp.at + d < e)

\* C6: once shutdown_purge_task has set the flag and notified, the purge task
\* eventually returns.
C6_PurgeTerminates == (shutdown /\ guardPc = "dropped") ~> (purgePc = "done")

\* C6 witness: the guard was dropped while the task waited on the notify
\* primitive with no permit pending, and the task has returned.
C6_Witness == shutdown /\ guardPc = "dropped" /\ purgePc = "done" /\ ~permit

\* C7: the ids taken by the sets strictly increase, all lie below next_id,
\* and the entries present carry pairwise distinct ids among them.
C7_IdsUnique ==
    /\ \A i, j \in 1..Len(issued) : i < j => issued[i] < issued[j]
    /\ \A i \in 1..Len(issued) : issued[i] < next_id
    /\ \A k \in DOMAIN entries : entries[k].id \in Range(issued)
    /\ \A k1, k2 \in DOMAIN entries : k1 # k2 => entries[k1].id # entries[k2].id

\* C7 witness: two keys present, one of them set again, after three sets.
C7_Witness ==
    /\ DOMAIN entries = Keys
    /\ Len(issued) >= 3
    /\ \E k \in Keys : entries[k].id = 2

\* C8: a set with a zero TTL is rejected as a command error and changes
\* neither the entries nor the index.
C8_ZeroTtlRejected ==
    (lastOp.op = "set" /\ lastOp.ttl = Some(0))
        => (lastOp.outcome = "error" /\ ~lastOp.stored /\ ~lastOp.changed)

\* C9: publish returns the number of receivers of the channel that are live
\* at the call (0 without a sender or without receivers), never an error.
C9_PublishCount ==
    lastOp.op = "publish" => (lastOp.outcome = "ok" /\ lastOp.count = lastOp.pre)

\* the messages published on the channel of receiver r since it subscribed
Since(r) ==
    SubSeq(published[receivers[r].chan], receivers[r].at + 1,
           Len(published[receivers[r].chan]))

\* C10: what a receiver has received plus what it still has to read is
\* exactly, and in order, what was published on its channel since its
\* subscribe: nothing published before the subscribe, and every message
\* published after it.
C10_NotRetroactive ==
    \A r \in DOMAIN receivers : receivers[r].got \o receivers[r].queue = Since(r)

\* C10 witness: a receiver that subscribed after a publish on its channel has
\* received a later message while a second receiver of the channel exists.
C10_Witness ==
    \E r \in DOMAIN receivers :
        /\ receivers[r].at >= 1
        /\ Len(receivers[r].got) >= 1
        /\ Cardinality(ReceiversOf(receivers, receivers[r].chan)) >= 2

\* C11: a publish always completes, whatever the receivers have read, and no
\* receiver ever buffers more than Capacity messages (a receiver further
\* behind has lost the oldest ones and stays in the channel).
C11_PublishNeverStalls ==
    /\ lastOp.op = "publish" => lastOp.outcome = "ok"
    /\ \A r \in DOMAIN receivers : Len(receivers[r].queue) <= Capacity

\* the index pairs of a key
PairsOf(exps, k) == {pr \in DOMAIN exps : exps[pr] = k}

\* two states agree on everything a second SET k v may not change, and the
\* second holds k with value v and one index pair for k iff a TTL was given
SetEquivalent(s1, s2, k, v, e) ==
    /\ DOMAIN s1.entries = DOMAIN s2.entries
    /\ k \in DOMAIN s2.entries
    /\ s2.entries[k].data = v
    /\ s1.entries[k].data = v
    /\ \A x \in DOMAIN s2.entries \ {k} : s1.entries[x] = s2.entries[x]
    /\ {pr \in DOMAIN s1.expirations : s1.expirations[pr] # k}
          = {pr \in DOMAIN s2.expirations : s2.expirations[pr] # k}
    /\ Cardinality(PairsOf(s2.expirations, k)) = IF e = None THEN 0 ELSE 1
    /\ Cardinality(PairsOf(s1.expirations, k)) = IF e = None THEN 0 ELSE 1

\* C12: from the current state, SET k v with a TTL option executed twice
\* leaves a state equivalent to executing it once: the same keys, value v
\* for k, the other entries and pairs alike, and one index pair for k
\* exactly when a TTL was given.
C12_SetIdempotent ==
    \A k \in Keys, v \in Values, e \in Expires :
        LET once == SetState(DbState(entries, expirations, next_id, poisoned), k, v, e, now)
            twice == SetState(once, k, v, e, now)
        IN  SetEquivalent(once, twice, k, v, e)

\* the name a request frame carries
NameOf(frame) == Head(frame.items).s
HasName(frame) == frame.kind = "array" /\ HasString(frame.items)
\* the name is no spelling of a name the match knows
Letters(nm) == [i \in DOMAIN nm |-> nm[i].c]
UnknownName(nm) == Letters(nm) \notin CommandWords

\* C13: a frame whose name is none of get, publish, set, subscribe,
\* unsubscribe, ping parses, whatever follows the name, into the Unknown
\* command that carries the name in lowercase; applying it answers
\* Error("ERR unknown command '<name>'"), makes no Db call and changes
\* nothing of the Db; the connection stays ready, and a PING that follows
\* on it is answered.
C13_UnknownServed ==
    /\ (conn.pc = "applied" /\ HasName(conn.frame) /\ UnknownName(NameOf(conn.frame)))
          => /\ conn.ok
             /\ conn.cmd.variant = "unknown"
             /\ conn.cmd.name = Lit(Letters(NameOf(conn.frame)))
             /\ conn.applied = "ok"
             /\ conn.resp = ErrorResp("ERR unknown command", conn.cmd.name)
             /\ ~conn.touched
             /\ sessPc[conn.sess] = "idle"
    /\ (conn.prev /\ conn.ok /\ conn.cmd.variant = "ping")
          => /\ conn.applied = "ok"
             /\ conn.resp.kind = IF conn.cmd.msg = None THEN "simple" ELSE "bulk"

\* C13 witness: on a connection whose previous frame was an unknown command,
\* a PING was answered PONG, on a Db whose mutex is poisoned.
C13_Witness ==
    /\ conn.prev
    /\ conn.cmd.variant = "ping"
    /\ conn.resp.text = "PONG"
    /\ poisoned

\* the frame with its name spelled in lowercase
LowercaseSpelling(frame) == Array(<<Bulk(Lit(Letters(NameOf(frame))))>> \o Tail(frame.items))

\* C14: for a frame whose name is a spelling, in any mix of upper and lower
\* case, of get, publish, set, subscribe, unsubscribe or ping,
\* Command::from_frame returns what it returns for the lowercase spelling
\* with the same arguments: the same variant with the same fields, or an
\* error in both cases.
C14_CaseInsensitive ==
    (conn.pc = "parsed" /\ HasName(conn.frame) /\ ~UnknownName(NameOf(conn.frame)))
        => /\ conn.ok = FromFrame(LowercaseSpelling(conn.frame)).ok
           /\ conn.cmd = FromFrame(LowercaseSpelling(conn.frame)).cmd
           /\ conn.cmd.variant # "unknown"

\* C14 witness: a SET spelled with both upper-case and lower-case letters was
\* parsed into the Set command with its expiration.
C14_Witness ==
    /\ conn.pc = "parsed"
    /\ conn.ok
    /\ conn.cmd.variant = "set"
    /\ conn.cmd.expire # None
    /\ \E i, j \in DOMAIN NameOf(conn.frame) :
          NameOf(conn.frame)[i].up /\ ~NameOf(conn.frame)[j].up

\* C15: applying an Unsubscribe command returns an error in every state,
\* calls no Db operation and leaves entries, expirations, pub_sub and the
\* rest of the Db as they were; the client is sent an Error frame.
C15_UnsubscribeErrs ==
    (conn.pc = "applied" /\ conn.ok /\ conn.cmd.variant = "unsubscribe")
        => /\ conn.applied = "err"
           /\ ~conn.touched
           /\ conn.resp.kind = "error"

\* C15 witness: an UNSUBSCRIBE naming a channel was refused on a Db that
\* holds an entry and a channel.
C15_Witness ==
    /\ conn.cmd.variant = "unsubscribe"
    /\ conn.cmd.channels # <<>>
    /\ conn.applied = "err"
    /\ entries # EmptyMap
    /\ pub_sub # {}

\* what the argument parser selected by the frame's name returns
ArgumentParse(frame) == MatchArm(Lit(Letters(NameOf(frame))), Tail(frame.items))

\* C20: when the name is one of get, publish, set, subscribe, unsubscribe,
\* ping and its argument parser succeeds but leaves frames of the array
\* unconsumed, Command::from_frame returns an error: no command is produced
\* and nothing is applied.
C20_TrailingRejected ==
    (/\ conn.pc \in {"parsed", "applied"}
     /\ HasName(conn.frame)
     /\ ~UnknownName(NameOf(conn.frame))
     /\ ArgumentParse(conn.frame).ok
     /\ ArgumentParse(conn.frame).rest # <<>>)
        => /\ ~conn.ok
           /\ conn.cmd = NoCmd
           /\ conn.applied = "none"
           /\ ~conn.touched

\* C20 witness: a SET with key, value, EX seconds and one more frame was
\* refused.
C20_Witness ==
    /\ conn.pc = "parsed"
    /\ HasName(conn.frame)
    /\ Letters(NameOf(conn.frame)) = SetWord
    /\ Len(conn.frame.items) = 6
    /\ ArgumentParse(conn.frame).ok
    /\ ~conn.ok

\* the pairs of the index that are due at time t
Due(exps, t) == {pr \in DOMAIN exps : pr[1] <= t}

\* C16: a run of purge_expired_keys with shutdown = false at time now removes
\* from the index exactly the pairs with when <= now and from entries exactly
\* their keys, leaves the other pairs and entries as they were, and returns
\* the smallest remaining instant, or nothing when the index is left empty.
C16_PurgeExact ==
    [][(purgePc = "purge" /\ purgePc' = "wait" /\ ~shutdown)
          => /\ DOMAIN expirations' = DOMAIN expirations \ Due(expirations, now)
             /\ \A pr \in DOMAIN expirations' : expirations'[pr] = expirations[pr]
             /\ DOMAIN entries' = DOMAIN entries \ {expirations[pr] : pr \in Due(expirations, now)}
             /\ \A k \in DOMAIN entries' : entries'[k] = entries[k]
             /\ \A w \in purgeTarget' :
                   /\ \E pr \in DOMAIN expirations' : pr[1] = w
                   /\ \A pr \in DOMAIN expirations' : w <= pr[1]
             /\ (purgeTarget' = None) = (DOMAIN expirations' = {})]_vars

\* C16 witness: a run removed a due key and left one that expires later, whose
\* instant it returned.
C16_Witness ==
    /\ purgePc = "wait"
    /\ purged # {}
    /\ \E pr \in DOMAIN expirations : purgeTarget = Some(pr[1]) /\ pr[1] > now

\* the purge task sleeps until a target later than the earliest expiration
\* of the index
SleepsTooLong ==
    /\ purgePc = "wait"
    /\ \E target \in purgeTarget : \E e \in NextExpiration(expirations) : e < target

\* a notification is stored or about to be issued by a set
NotificationPending == permit \/ \E p \in Sessions : sessPc[p] = "set_notify"

\* C17: whenever the purge task sleeps until a target later than the
\* earliest expiration of the index (a set installed an earlier one), a
\* notification of that set is pending, and the task is woken: it re-scans
\* and sleeps until the earliest instant, or it has ended.
C17_EarlierAdopted ==
    /\ [](SleepsTooLong => NotificationPending)
    /\ SleepsTooLong ~> ~SleepsTooLong

\* C17 witness: a set that ran while the purge task slept until a later
\* target computed notify = true, and the task now sleeps until the
\* instant of that set.
C17_Witness ==
    /\ lastOp.op = "set"
    /\ lastOp.notify
    /\ lastOp.asleep # None
    /\ purgePc = "wait"
    /\ purgeTarget = SetWhen(lastOp.at, lastOp.ttl)
    /\ purgeTarget # lastOp.asleep
    /\ ~permit

\* C18: a task that is about to call notify_one does not hold the mutex, and
\* the change it announces is in the state: Db::set has left its critical
\* section, shutdown_purge_task has set shutdown; and a notification is never
\* issued by a step that holds the mutex.
C18_NotifyAfterUnlock ==
    \A t \in Tasks :
        mtx.task[t].at = "notify"
            => /\ mtx.holder # Some(t)
               /\ t = GuardTask => shutdown

\* C18 witness: the guard's drop has set shutdown, released the mutex and is
\* about to notify, while the purge task holds the mutex.
C18_Witness ==
    /\ mtx.task[GuardTask].at = "notify"
    /\ shutdown
    /\ mtx.holder = Some(PurgeTask)

\* a task waits, or is between two Db calls
Waits(t) == mtx.task[t].at \in {"wait", "idle", "held", "done", "dropped", "panicked"}

RemovedKeys == {k \in DOMAIN entries : k \notin DOMAIN entries'}

\* C21: a step removes a key from entries only if the entry the key has at
\* that moment carries an expiration with expires_at <= now; the expiration
\* of an entry that a later set replaced never removes the key.
C21_PurgeOnlyCurrent ==
    [][\A k \in RemovedKeys : \E w \in entries[k].expires_at : w <= now]_vars

\* C21 witness: keys a and b were due at instants ta <= tb; a was set again
\* without a TTL; a purge run that came after that set removed b and left a.
C21_Witness ==
    /\ \E ra, rb \in asked :
          /\ ra.id = KeyId("a") /\ ra.key = "a"
          /\ rb.id = KeyId("b") /\ rb.key = "b"
          /\ ra.when <= rb.when
    /\ KeyId("b") \in purged
    /\ KeyId("a") \notin purged
    /\ "a" \in DOMAIN entries
    /\ entries["a"].id = MaxId - 1
    /\ entries["a"].expires_at = None
    /\ expirations = EmptyMap

\* C22: every call of Db::get and Db::set (and of subscribe and publish)
\* returns normally, and the mutex is never poisoned: no call aborts while
\* it holds the lock, a set with a TTL on an empty index included.
C22_Total ==
    /\ ~poisoned
    /\ lastOp.outcome # "panic"
    /\ purgePc # "panicked"
    /\ guardPc # "panicked"

\* the variants `match &command_name[..]` has an arm for
Recognised == {"get", "publish", "set", "subscribe", "unsubscribe", "ping"}

\* C23: for a command of a recognised variant, get_name returns the
\* lowercase name whose arm in from_frame is that variant, and the request
\* parsed again under that name gives the same variant.
C23_GetNameRoundTrip ==
    conn.cmd.variant \in Recognised
        => /\ conn.pc \in {"named", "reparsed"} => VariantOf(conn.called) = conn.cmd.variant
           /\ conn.pc = "reparsed" => conn.again = conn.cmd.variant

====
